---------------------------- MODULE Spec2Model ----------------------------
(***************************************************************************)
(* Model of the byte ring buffer (ring_buffer.hpp / ring_buffer.cpp) and   *)
(* of the two-thread pipeline built around it in 03-reading-from-srt.cpp:  *)
(* the main thread receives SRT messages and writes them into the ring     *)
(* buffer, the flv thread (convert_to_flv) pulls them out through          *)
(* readFunction.                                                           *)
(*                                                                         *)
(* C arrays are functions on 0..n-1.  size_t values are naturals           *)
(* below SizeMod and size_t arithmetic wraps modulo SizeMod.               *)
(***************************************************************************)
EXTENDS Integers, Sequences, FiniteSets, TLC

VARIABLES
    buff,                     \* the RingBuffer object (main: RingBuffer buff)
    written,                  \* history: bytes stored by RingBuffer::write, in order
    readout,                  \* history: bytes returned by RingBuffer::read, in order
    lastCall,                 \* history: the last RingBuffer call: its length argument, its
                              \*          result, the bytes passed to write / returned by read
    buf_mutex,                \* std::mutex buf_mutex: "free" or the owning thread
    cond,                     \* std::condition_variable cond: the threads blocked in wait
    done,                     \* std::atomic<bool> done
    done_converting_to_flv,   \* std::atomic<bool> done_converting_to_flv
    count_read,               \* int count_read
    wf,                       \* std::ofstream wf: TRUE while open
    main_pc,                  \* position of the main thread
    i,                        \* main: loop counter
    st,                       \* main: length returned by srt_recvmsg
    msg,                      \* main: char msg[2048], the st bytes received
    count,                    \* main: int count
    flv_pc,                   \* position of the flv thread
    flv_ret,                  \* flv thread: where the running readFunction call returns to
    buf_size,                 \* readFunction: its buf_size argument
    rf_call,                  \* history: done and size() when readFunction was entered,
                              \*          and its return value (-1 while it runs)
    eof_reached,              \* AVIOContext: readFunction has returned 0
    flv_failed,               \* history: the flv thread took an error path
    wf_late                   \* history: writeFunction ran after wf.close()

ringVars == <<buff, written, readout, lastCall>>
syncVars == <<buf_mutex, cond, done, done_converting_to_flv, count_read, wf>>
mainVars == <<main_pc, i, st, msg, count>>
flvVars  == <<flv_pc, flv_ret, buf_size, rf_call, eof_reached, flv_failed, wf_late>>
vars     == <<ringVars, syncVars, mainVars, flvVars>>

---------------------------------------------------------------------------
(* Bounds of the model. *)

SizeBits    == 10   \* width of size_t in the model
MaxCapacity == 3    \* largest capacity a directly driven RingBuffer is built with
MaxLen      == 3    \* longest request of a direct write / read call
MaxByte     == 1    \* direct calls write bytes 0..MaxByte
MaxTraffic  == 5    \* direct calls: bytes offered to write in one run
BuffSize    == 3    \* pipeline: capacity of buff (40960 in main)
MaxMsg      == 2    \* pipeline: longest message of srt_recvmsg (2048 in main)
MaxIter     == 3    \* pipeline: iterations of the receive loop (20000 in main)
MaxRead     == 2    \* pipeline: largest buf_size of a readFunction call (8192 in main)

Min(a, b) == IF a <= b THEN a ELSE b

Pow2(n) == 2 ^ n

\* std::numeric_limits<size_t>::max()
SizeMod == Pow2(SizeBits)
SizeMax == SizeMod - 1

\* size_t subtraction and addition
SubSz(a, b) == (a - b) % SizeMod
AddSz(a, b) == (a + b) % SizeMod

RingBufferMaxSize       == SizeMax - 128
RingBufferErrOutOfSpace == SizeMax - 127

Byte == 0 .. MaxByte

\* a char array holding the elements of sequence s
ArrayOf(s) == [k \in 0 .. Len(s) - 1 |-> s[k + 1]]
\* the first n elements of array a, as a sequence
SeqOf(a, n) == [k \in 1 .. n |-> a[k - 1]]

Arrays(S, n) == [0 .. n - 1 -> S]

\* memcpy(dst + d, src + s, n)
memcpy(dst, d, src, s, n) ==
    [k \in DOMAIN dst |-> IF d <= k /\ k < d + n THEN src[s + (k - d)] ELSE dst[k]]

---------------------------------------------------------------------------
(* class RingBuffer *)

\* constructor testing the capacity against RingBufferErrOutOfSpace with >
CtorThrows_late(cap) == cap > RingBufferErrOutOfSpace

\* RingBuffer::RingBuffer throws std::invalid_argument
CtorThrows(cap) == cap >= RingBufferMaxSize

\* RingBuffer::RingBuffer(capacity); storage is what new char[capacity] holds
RingBuffer(cap, storage) ==
    [m_head |-> 0, m_tail |-> 0, m_size |-> 0, m_capacity |-> cap, m_buff |-> storage]

size(b)     == b.m_size
capacity(b) == b.m_capacity
avail(b)    == SubSz(b.m_capacity, b.m_size)

\* write with the second half of a split copy taken from the start of data
write_resplit(b, data, sz) ==
    IF sz = 0 THEN [buf |-> b, ret |-> 0]
    ELSE
      LET available_space == SubSz(b.m_capacity, b.m_size) IN
      IF available_space = 0 THEN [buf |-> b, ret |-> RingBufferErrOutOfSpace]
      ELSE
        LET n == Min(sz, available_space) IN
        IF n <= SubSz(b.m_capacity, b.m_tail)
        THEN LET t == AddSz(b.m_tail, n) IN
             [buf |-> [b EXCEPT !.m_buff = memcpy(@, b.m_tail, data, 0, n),
                                !.m_tail = IF t = b.m_capacity THEN 0 ELSE t,
                                !.m_size = AddSz(@, n)],
              ret |-> n]
        ELSE LET size_1 == SubSz(b.m_capacity, b.m_tail)
                 size_2 == SubSz(n, size_1) IN
             [buf |-> [b EXCEPT !.m_buff = memcpy(memcpy(@, b.m_tail, data, 0, size_1),
                                                  0, data, 0, size_2),
                                !.m_tail = size_2,
                                !.m_size = AddSz(@, n)],
              ret |-> n]

\* write without the clamp sz = std::min(sz, available_space)
write_unclamped(b, data, sz) ==
    IF sz = 0 THEN [buf |-> b, ret |-> 0]
    ELSE
      LET available_space == SubSz(b.m_capacity, b.m_size) IN
      IF available_space = 0 THEN [buf |-> b, ret |-> RingBufferErrOutOfSpace]
      ELSE
        LET n == sz IN
        IF n <= SubSz(b.m_capacity, b.m_tail)
        THEN LET t == AddSz(b.m_tail, n) IN
             [buf |-> [b EXCEPT !.m_buff = memcpy(@, b.m_tail, data, 0, n),
                                !.m_tail = IF t = b.m_capacity THEN 0 ELSE t,
                                !.m_size = AddSz(@, n)],
              ret |-> n]
        ELSE LET size_1 == SubSz(b.m_capacity, b.m_tail)
                 size_2 == SubSz(n, size_1) IN
             [buf |-> [b EXCEPT !.m_buff = memcpy(memcpy(@, b.m_tail, data, 0, size_1),
                                                  0, data, size_1, size_2),
                                !.m_tail = size_2,
                                !.m_size = AddSz(@, n)],
              ret |-> n]

\* write that adds the requested length, not the stored length, to m_size
write_oversize(b, data, sz) ==
    IF sz = 0 THEN [buf |-> b, ret |-> 0]
    ELSE
      LET available_space == SubSz(b.m_capacity, b.m_size) IN
      IF available_space = 0 THEN [buf |-> b, ret |-> RingBufferErrOutOfSpace]
      ELSE
        LET n == Min(sz, available_space) IN
        IF n <= SubSz(b.m_capacity, b.m_tail)
        THEN LET t == AddSz(b.m_tail, n) IN
             [buf |-> [b EXCEPT !.m_buff = memcpy(@, b.m_tail, data, 0, n),
                                !.m_tail = IF t = b.m_capacity THEN 0 ELSE t,
                                !.m_size = AddSz(@, sz)],
              ret |-> n]
        ELSE LET size_1 == SubSz(b.m_capacity, b.m_tail)
                 size_2 == SubSz(n, size_1) IN
             [buf |-> [b EXCEPT !.m_buff = memcpy(memcpy(@, b.m_tail, data, 0, size_1),
                                                  0, data, size_1, size_2),
                                !.m_tail = size_2,
                                !.m_size = AddSz(@, sz)],
              ret |-> n]

\* write without the reset of m_tail to 0 when it reaches m_capacity
write_tail_at_end(b, data, sz) ==
    IF sz = 0 THEN [buf |-> b, ret |-> 0]
    ELSE
      LET available_space == SubSz(b.m_capacity, b.m_size) IN
      IF available_space = 0 THEN [buf |-> b, ret |-> RingBufferErrOutOfSpace]
      ELSE
        LET n == Min(sz, available_space) IN
        IF n <= SubSz(b.m_capacity, b.m_tail)
        THEN [buf |-> [b EXCEPT !.m_buff = memcpy(@, b.m_tail, data, 0, n),
                                !.m_tail = AddSz(b.m_tail, n),
                                !.m_size = AddSz(@, n)],
              ret |-> n]
        ELSE LET size_1 == SubSz(b.m_capacity, b.m_tail)
                 size_2 == SubSz(n, size_1) IN
             [buf |-> [b EXCEPT !.m_buff = memcpy(memcpy(@, b.m_tail, data, 0, size_1),
                                                  0, data, size_1, size_2),
                                !.m_tail = size_2,
                                !.m_size = AddSz(@, n)],
              ret |-> n]

\* write that returns the requested length, not the stored length
write_returns_request(b, data, sz) ==
    IF sz = 0 THEN [buf |-> b, ret |-> 0]
    ELSE
      LET available_space == SubSz(b.m_capacity, b.m_size) IN
      IF available_space = 0 THEN [buf |-> b, ret |-> RingBufferErrOutOfSpace]
      ELSE
        LET n == Min(sz, available_space) IN
        IF n <= SubSz(b.m_capacity, b.m_tail)
        THEN LET t == AddSz(b.m_tail, n) IN
             [buf |-> [b EXCEPT !.m_buff = memcpy(@, b.m_tail, data, 0, n),
                                !.m_tail = IF t = b.m_capacity THEN 0 ELSE t,
                                !.m_size = AddSz(@, n)],
              ret |-> sz]
        ELSE LET size_1 == SubSz(b.m_capacity, b.m_tail)
                 size_2 == SubSz(n, size_1) IN
             [buf |-> [b EXCEPT !.m_buff = memcpy(memcpy(@, b.m_tail, data, 0, size_1),
                                                  0, data, size_1, size_2),
                                !.m_tail = size_2,
                                !.m_size = AddSz(@, n)],
              ret |-> sz]

\* write without the test for a full buffer, clamped to the capacity
write_overwrite(b, data, sz) ==
    IF sz = 0 THEN [buf |-> b, ret |-> 0]
    ELSE
      LET n == Min(sz, b.m_capacity) IN
      IF n <= SubSz(b.m_capacity, b.m_tail)
      THEN LET t == AddSz(b.m_tail, n) IN
           [buf |-> [b EXCEPT !.m_buff = memcpy(@, b.m_tail, data, 0, n),
                              !.m_tail = IF t = b.m_capacity THEN 0 ELSE t,
                              !.m_size = AddSz(@, n)],
            ret |-> n]
      ELSE LET size_1 == SubSz(b.m_capacity, b.m_tail)
               size_2 == SubSz(n, size_1) IN
           [buf |-> [b EXCEPT !.m_buff = memcpy(memcpy(@, b.m_tail, data, 0, size_1),
                                                0, data, size_1, size_2),
                              !.m_tail = size_2,
                              !.m_size = AddSz(@, n)],
            ret |-> n]

\* RingBuffer::write(data, sz): the buffer afterwards and the return value
write(b, data, sz) ==
    IF sz = 0 THEN [buf |-> b, ret |-> 0]
    ELSE
      LET available_space == SubSz(b.m_capacity, b.m_size) IN
      IF available_space = 0 THEN [buf |-> b, ret |-> RingBufferErrOutOfSpace]
      ELSE
        LET n == Min(sz, available_space) IN
        IF n <= SubSz(b.m_capacity, b.m_tail)
        THEN LET t == AddSz(b.m_tail, n) IN
             [buf |-> [b EXCEPT !.m_buff = memcpy(@, b.m_tail, data, 0, n),
                                !.m_tail = IF t = b.m_capacity THEN 0 ELSE t,
                                !.m_size = AddSz(@, n)],
              ret |-> n]
        ELSE LET size_1 == SubSz(b.m_capacity, b.m_tail)
                 size_2 == SubSz(n, size_1) IN
             [buf |-> [b EXCEPT !.m_buff = memcpy(memcpy(@, b.m_tail, data, 0, size_1),
                                                  0, data, size_1, size_2),
                                !.m_tail = size_2,
                                !.m_size = AddSz(@, n)],
              ret |-> n]

\* read without m_size -= sz
read_keeps_size(b, sz) ==
    IF sz = 0 THEN [buf |-> b, ret |-> 0, data |-> <<>>]
    ELSE
      LET n   == Min(sz, b.m_size)
          out == [k \in 0 .. n - 1 |-> 0] IN
      IF n <= SubSz(b.m_capacity, b.m_head)
      THEN LET h == AddSz(b.m_head, n) IN
           [buf  |-> [b EXCEPT !.m_head = IF h = b.m_capacity THEN 0 ELSE h],
            ret  |-> n,
            data |-> SeqOf(memcpy(out, 0, b.m_buff, b.m_head, n), n)]
      ELSE LET size_1 == SubSz(b.m_capacity, b.m_head)
               size_2 == SubSz(n, size_1) IN
           [buf  |-> [b EXCEPT !.m_head = size_2],
            ret  |-> n,
            data |-> SeqOf(memcpy(memcpy(out, 0, b.m_buff, b.m_head, size_1),
                                  size_1, b.m_buff, 0, size_2), n)]

\* read with the second half of a split copy put at the start of data
read_resplit(b, sz) ==
    IF sz = 0 THEN [buf |-> b, ret |-> 0, data |-> <<>>]
    ELSE
      LET n   == Min(sz, b.m_size)
          out == [k \in 0 .. n - 1 |-> 0] IN
      IF n <= SubSz(b.m_capacity, b.m_head)
      THEN LET h == AddSz(b.m_head, n) IN
           [buf  |-> [b EXCEPT !.m_head = IF h = b.m_capacity THEN 0 ELSE h,
                               !.m_size = SubSz(@, n)],
            ret  |-> n,
            data |-> SeqOf(memcpy(out, 0, b.m_buff, b.m_head, n), n)]
      ELSE LET size_1 == SubSz(b.m_capacity, b.m_head)
               size_2 == SubSz(n, size_1) IN
           [buf  |-> [b EXCEPT !.m_head = size_2,
                               !.m_size = SubSz(@, n)],
            ret  |-> n,
            data |-> SeqOf(memcpy(memcpy(out, 0, b.m_buff, b.m_head, size_1),
                                  0, b.m_buff, 0, size_2), n)]

\* read that returns the requested length, not the copied length
read_returns_request(b, sz) ==
    IF sz = 0 THEN [buf |-> b, ret |-> 0, data |-> <<>>]
    ELSE
      LET n   == Min(sz, b.m_size)
          out == [k \in 0 .. n - 1 |-> 0] IN
      IF n <= SubSz(b.m_capacity, b.m_head)
      THEN LET h == AddSz(b.m_head, n) IN
           [buf  |-> [b EXCEPT !.m_head = IF h = b.m_capacity THEN 0 ELSE h,
                               !.m_size = SubSz(@, n)],
            ret  |-> sz,
            data |-> SeqOf(memcpy(out, 0, b.m_buff, b.m_head, n), n)]
      ELSE LET size_1 == SubSz(b.m_capacity, b.m_head)
               size_2 == SubSz(n, size_1) IN
           [buf  |-> [b EXCEPT !.m_head = size_2,
                               !.m_size = SubSz(@, n)],
            ret  |-> sz,
            data |-> SeqOf(memcpy(memcpy(out, 0, b.m_buff, b.m_head, size_1),
                                  size_1, b.m_buff, 0, size_2), n)]

\* read without the reset of m_head to 0 when it reaches m_capacity
read_head_at_end(b, sz) ==
    IF sz = 0 THEN [buf |-> b, ret |-> 0, data |-> <<>>]
    ELSE
      LET n   == Min(sz, b.m_size)
          out == [k \in 0 .. n - 1 |-> 0] IN
      IF n <= SubSz(b.m_capacity, b.m_head)
      THEN [buf  |-> [b EXCEPT !.m_head = AddSz(b.m_head, n),
                               !.m_size = SubSz(@, n)],
            ret  |-> n,
            data |-> SeqOf(memcpy(out, 0, b.m_buff, b.m_head, n), n)]
      ELSE LET size_1 == SubSz(b.m_capacity, b.m_head)
               size_2 == SubSz(n, size_1) IN
           [buf  |-> [b EXCEPT !.m_head = size_2,
                               !.m_size = SubSz(@, n)],
            ret  |-> n,
            data |-> SeqOf(memcpy(memcpy(out, 0, b.m_buff, b.m_head, size_1),
                                  size_1, b.m_buff, 0, size_2), n)]

\* read that clears the bytes it has copied out of the storage
read_scrubs(b, sz) ==
    IF sz = 0 THEN [buf |-> b, ret |-> 0, data |-> <<>>]
    ELSE
      LET n   == Min(sz, b.m_size)
          out == [k \in 0 .. n - 1 |-> 0] IN
      IF n <= SubSz(b.m_capacity, b.m_head)
      THEN LET h == AddSz(b.m_head, n) IN
           [buf  |-> [b EXCEPT !.m_buff = memcpy(@, b.m_head, out, 0, n),
                               !.m_head = IF h = b.m_capacity THEN 0 ELSE h,
                               !.m_size = SubSz(@, n)],
            ret  |-> n,
            data |-> SeqOf(memcpy(out, 0, b.m_buff, b.m_head, n), n)]
      ELSE LET size_1 == SubSz(b.m_capacity, b.m_head)
               size_2 == SubSz(n, size_1) IN
           [buf  |-> [b EXCEPT !.m_buff = memcpy(memcpy(@, b.m_head, out, 0, size_1),
                                                 0, out, 0, size_2),
                               !.m_head = size_2,
                               !.m_size = SubSz(@, n)],
            ret  |-> n,
            data |-> SeqOf(memcpy(memcpy(out, 0, b.m_buff, b.m_head, size_1),
                                  size_1, b.m_buff, 0, size_2), n)]

\* RingBuffer::read(data, sz): the buffer afterwards, the return value and the
\* bytes copied to data[0 .. ret)
read(b, sz) ==
    IF sz = 0 THEN [buf |-> b, ret |-> 0, data |-> <<>>]
    ELSE
      LET n   == Min(sz, b.m_size)
          out == [k \in 0 .. n - 1 |-> 0] IN
      IF n <= SubSz(b.m_capacity, b.m_head)
      THEN LET h == AddSz(b.m_head, n) IN
           [buf  |-> [b EXCEPT !.m_head = IF h = b.m_capacity THEN 0 ELSE h,
                               !.m_size = SubSz(@, n)],
            ret  |-> n,
            data |-> SeqOf(memcpy(out, 0, b.m_buff, b.m_head, n), n)]
      ELSE LET size_1 == SubSz(b.m_capacity, b.m_head)
               size_2 == SubSz(n, size_1) IN
           [buf  |-> [b EXCEPT !.m_head = size_2,
                               !.m_size = SubSz(@, n)],
            ret  |-> n,
            data |-> SeqOf(memcpy(memcpy(out, 0, b.m_buff, b.m_head, size_1),
                                  size_1, b.m_buff, 0, size_2), n)]

\* the number of bytes a write stored, from its return value
Stored(ret) == IF ret = RingBufferErrOutOfSpace THEN 0 ELSE ret

NoCall == [op |-> "none", sz |-> 0, ret |-> 0, data |-> <<>>]
NoRfCall == [done |-> FALSE, size |-> 0, ret |-> -1]

---------------------------------------------------------------------------
(* The ring buffer driven directly: any sequence of write and read calls.  *)

PipelineIdle ==
    /\ buf_mutex = "free" /\ cond = {} /\ done = FALSE
    /\ done_converting_to_flv = FALSE /\ count_read = 0 /\ wf = TRUE
    /\ main_pc = "idle" /\ i = 0 /\ st = 0 /\ msg = <<>> /\ count = 0
    /\ flv_pc = "idle" /\ flv_ret = "none" /\ buf_size = 0
    /\ rf_call = NoRfCall
    /\ eof_reached = FALSE /\ flv_failed = FALSE /\ wf_late = FALSE

RingInit ==
    /\ \E cap \in 0 .. MaxCapacity :
         \E storage \in Arrays(Byte, cap) :
            /\ ~CtorThrows(cap)
            /\ buff = RingBuffer(cap, storage)
    /\ written = <<>>
    /\ readout = <<>>
    /\ lastCall = NoCall
    /\ PipelineIdle

Seqs(S, n) == UNION {[1 .. k -> S] : k \in 0 .. n}

\* buff.write(data, sz) called directly
CallWrite(data) ==
    LET r == write(buff, ArrayOf(data), Len(data)) IN
    /\ Len(written) + Len(data) <= MaxTraffic
    /\ buff' = r.buf
    /\ written' = written \o SubSeq(data, 1, Stored(r.ret))
    /\ lastCall' = [op |-> "write", sz |-> Len(data), ret |-> r.ret, data |-> data]
    /\ UNCHANGED <<readout, syncVars, mainVars, flvVars>>

\* buff.read(data, sz) called directly
CallRead(sz) ==
    LET r == read(buff, sz) IN
    /\ buff' = r.buf
    /\ readout' = readout \o r.data
    /\ lastCall' = [op |-> "read", sz |-> sz, ret |-> r.ret, data |-> r.data]
    /\ UNCHANGED <<written, syncVars, mainVars, flvVars>>

\* buff.size() called directly
CallSize ==
    /\ lastCall' = [op |-> "size", sz |-> 0, ret |-> size(buff), data |-> <<>>]
    /\ UNCHANGED <<buff, written, readout, syncVars, mainVars, flvVars>>

\* buff.capacity() called directly
CallCapacity ==
    /\ lastCall' = [op |-> "capacity", sz |-> 0, ret |-> capacity(buff), data |-> <<>>]
    /\ UNCHANGED <<buff, written, readout, syncVars, mainVars, flvVars>>

\* buff.avail() called directly
CallAvail ==
    /\ lastCall' = [op |-> "avail", sz |-> 0, ret |-> avail(buff), data |-> <<>>]
    /\ UNCHANGED <<buff, written, readout, syncVars, mainVars, flvVars>>

RingNext ==
    \/ \E data \in Seqs(Byte, MaxLen) : CallWrite(data)
    \/ \E sz \in 0 .. MaxLen : CallRead(sz)
    \/ CallSize
    \/ CallCapacity
    \/ CallAvail

SpecRing == RingInit /\ [][RingNext]_vars

---------------------------------------------------------------------------
(* The pipeline of 03-reading-from-srt.cpp: the main thread ("main") and   *)
(* the thread running convert_to_flv ("flv").                              *)

SRT_ERROR == -1

\* the n bytes of a message that starts after `from` received bytes: byte k of
\* the stream carries the value k, so a lost, repeated or reordered byte shows
Stamp(from, n) == [k \in 1 .. n |-> from + k]

\* cond.notify_one(): the sets of waiters it can leave
notify_one(c) == IF c = {} THEN {c} ELSE {c \ {t} : t \in c}

PipeInitWith(cap, storages) ==
    /\ \E storage \in storages : buff = RingBuffer(cap, storage)
    /\ written = <<>> /\ readout = <<>> /\ lastCall = NoCall
    /\ buf_mutex = "free" /\ cond = {}
    /\ done = FALSE /\ done_converting_to_flv = FALSE
    /\ count_read = 0 /\ wf = TRUE
    /\ main_pc = "recv" /\ i = 0 /\ st = 0 /\ msg = <<>> /\ count = 0
    /\ flv_pc = "probe" /\ flv_ret = "none" /\ buf_size = 0
    /\ rf_call = NoRfCall
    /\ eof_reached = FALSE /\ flv_failed = FALSE /\ wf_late = FALSE

\* what the storage of new char[capacity] may hold before it is written: the
\* values differ from every stamped byte, so a read of it shows
Garbage == {0, 255}

PipeInit == PipeInitWith(BuffSize, Arrays(Garbage, BuffSize))

(* ---- main ---- *)

\* srt_recvmsg delivers message m; count += st; the test of done_converting_to_flv
MainRecv(m, limit) ==
    /\ main_pc = "recv" /\ i < limit
    /\ st' = Len(m) /\ msg' = m
    /\ count' = count + Len(m)
    /\ IF ~done_converting_to_flv
       THEN main_pc' = "lock" /\ i' = i
       ELSE main_pc' = "recv" /\ i' = i + 1
    /\ UNCHANGED <<ringVars, syncVars, flvVars>>

\* srt_recvmsg returns SRT_ERROR: break
MainRecvError(limit) ==
    /\ main_pc = "recv" /\ i < limit
    /\ st' = SRT_ERROR
    /\ main_pc' = "close"
    /\ UNCHANGED <<i, msg, count, ringVars, syncVars, flvVars>>

\* the for loop ends: i == 20000
MainLoopEnd(limit) ==
    /\ main_pc = "recv" /\ i >= limit
    /\ main_pc' = "close"
    /\ UNCHANGED <<i, st, msg, count, ringVars, syncVars, flvVars>>

\* std::unique_lock<std::mutex> lk(buf_mutex)
MainLock ==
    /\ main_pc = "lock" /\ buf_mutex = "free"
    /\ buf_mutex' = "main"
    /\ main_pc' = "check"
    /\ UNCHANGED <<cond, done, done_converting_to_flv, count_read, wf,
                   i, st, msg, count, ringVars, flvVars>>

\* while (buff.avail() < st) { if (done.load()) break; ...
MainCheck ==
    /\ main_pc = "check"
    /\ main_pc' = IF avail(buff) < st /\ ~done THEN "towait" ELSE "write"
    /\ UNCHANGED <<i, st, msg, count, ringVars, syncVars, flvVars>>

\* cond.wait(lk): release the mutex and block
MainWait ==
    /\ main_pc = "towait"
    /\ buf_mutex' = "free"
    /\ cond' = cond \cup {"main"}
    /\ main_pc' = "waiting"
    /\ UNCHANGED <<done, done_converting_to_flv, count_read, wf,
                   i, st, msg, count, ringVars, flvVars>>

\* cond.wait(lk) returning without taking the mutex again
MainWake_unlocked ==
    /\ main_pc = "waiting" /\ "main" \notin cond
    /\ main_pc' = "check"
    /\ UNCHANGED <<buf_mutex, cond, done, done_converting_to_flv, count_read, wf,
                   i, st, msg, count, ringVars, flvVars>>

\* cond.wait(lk) under `if` instead of `while`: no second test of avail()
MainWake_norecheck ==
    /\ main_pc = "waiting" /\ "main" \notin cond /\ buf_mutex = "free"
    /\ buf_mutex' = "main"
    /\ main_pc' = "write"
    /\ UNCHANGED <<cond, done, done_converting_to_flv, count_read, wf,
                   i, st, msg, count, ringVars, flvVars>>

\* cond.wait(lk) returns: woken, the mutex is taken again
MainWake ==
    /\ main_pc = "waiting" /\ "main" \notin cond /\ buf_mutex = "free"
    /\ buf_mutex' = "main"
    /\ main_pc' = "check"
    /\ UNCHANGED <<cond, done, done_converting_to_flv, count_read, wf,
                   i, st, msg, count, ringVars, flvVars>>

\* buff.write(msg, st) without the cond.notify_one() after it
MainWrite_nonotify ==
    LET r == write(buff, ArrayOf(msg), st) IN
    /\ main_pc = "write"
    /\ buff' = r.buf
    /\ written' = written \o SubSeq(msg, 1, Stored(r.ret))
    /\ lastCall' = [op |-> "write", sz |-> st, ret |-> r.ret, data |-> msg]
    /\ cond' = cond
    /\ buf_mutex' = "free"
    /\ i' = i + 1
    /\ main_pc' = "recv"
    /\ UNCHANGED <<readout, done, done_converting_to_flv, count_read, wf,
                   st, msg, count, flvVars>>

\* buff.write(msg, st); cond.notify_one(); the lock is released; i++
MainWrite ==
    LET r == write(buff, ArrayOf(msg), st) IN
    /\ main_pc = "write"
    /\ buff' = r.buf
    /\ written' = written \o SubSeq(msg, 1, Stored(r.ret))
    /\ lastCall' = [op |-> "write", sz |-> st, ret |-> r.ret, data |-> msg]
    /\ cond' \in notify_one(cond)
    /\ buf_mutex' = "free"
    /\ i' = i + 1
    /\ main_pc' = "recv"
    /\ UNCHANGED <<readout, done, done_converting_to_flv, count_read, wf,
                   st, msg, count, flvVars>>

\* std::cout << "DONE\n"; wf.close()
MainClose ==
    /\ main_pc = "close"
    /\ wf' = FALSE
    /\ main_pc' = "store"
    /\ UNCHANGED <<buf_mutex, cond, done, done_converting_to_flv, count_read,
                   i, st, msg, count, ringVars, flvVars>>

\* done.store(true)
MainStoreDone ==
    /\ main_pc = "store"
    /\ done' = TRUE
    /\ main_pc' = "sleep"
    /\ UNCHANGED <<buf_mutex, cond, done_converting_to_flv, count_read, wf,
                   i, st, msg, count, ringVars, flvVars>>

\* std::this_thread::sleep_for(100 ms); cond.notify_all()
MainNotifyAll ==
    /\ main_pc = "sleep"
    /\ cond' = {}
    /\ main_pc' = "join"
    /\ UNCHANGED <<buf_mutex, done, done_converting_to_flv, count_read, wf,
                   i, st, msg, count, ringVars, flvVars>>

\* flv_thread.join() followed by done.store(false), re-arming the flag
MainJoin_rearm ==
    /\ main_pc = "join" /\ flv_pc = "exit"
    /\ done' = FALSE
    /\ main_pc' = "exit"
    /\ UNCHANGED <<buf_mutex, cond, done_converting_to_flv, count_read, wf,
                   i, st, msg, count, ringVars, flvVars>>

\* flv_thread.join() returns
MainJoin ==
    /\ main_pc = "join" /\ flv_pc = "exit"
    /\ main_pc' = "exit"
    /\ UNCHANGED <<i, st, msg, count, ringVars, syncVars, flvVars>>

(* ---- readFunction, called by libavformat on the flv thread ---- *)

\* the call readFunction(opaque, buf, n) made from position `from`
RfEnter(from, n) ==
    /\ flv_pc = from /\ ~eof_reached
    /\ buf_size' = n
    /\ flv_ret' = from
    /\ rf_call' = [done |-> done, size |-> size(buff), ret |-> -1]
    /\ flv_pc' = "rf_lock"
    /\ UNCHANGED <<eof_reached, flv_failed, wf_late, ringVars, syncVars, mainVars>>

\* std::unique_lock<std::mutex> lk(buf_mutex)
RfLock ==
    /\ flv_pc = "rf_lock" /\ buf_mutex = "free"
    /\ buf_mutex' = "flv"
    /\ flv_pc' = "rf_check"
    /\ UNCHANGED <<cond, done, done_converting_to_flv, count_read, wf,
                   flv_ret, buf_size, rf_call, eof_reached, flv_failed, wf_late,
                   ringVars, mainVars>>

\* readFunction without the test of done in its wait loop
RfCheck_nodone ==
    /\ flv_pc = "rf_check"
    /\ flv_pc' = IF size(buff) = 0 THEN "rf_towait" ELSE "rf_read"
    /\ UNCHANGED <<buf_mutex, rf_call, eof_reached>>
    /\ UNCHANGED <<cond, done, done_converting_to_flv, count_read, wf,
                   flv_ret, buf_size, flv_failed, wf_late, ringVars, mainVars>>

\* readFunction testing done before the emptiness of the buffer
RfCheck_done_first ==
    /\ flv_pc = "rf_check"
    /\ IF done
       THEN /\ flv_pc' = flv_ret
            /\ buf_mutex' = "free"
            /\ rf_call' = [rf_call EXCEPT !.ret = 0]
            /\ eof_reached' = TRUE
       ELSE /\ flv_pc' = IF size(buff) = 0 THEN "rf_towait" ELSE "rf_read"
            /\ UNCHANGED <<buf_mutex, rf_call, eof_reached>>
    /\ UNCHANGED <<cond, done, done_converting_to_flv, count_read, wf,
                   flv_ret, buf_size, flv_failed, wf_late, ringVars, mainVars>>

\* while (buff.size() == 0) { if (done.load()) return 0; ...
RfCheck ==
    /\ flv_pc = "rf_check"
    /\ IF size(buff) = 0
       THEN IF done
            THEN /\ flv_pc' = flv_ret
                 /\ buf_mutex' = "free"
                 /\ rf_call' = [rf_call EXCEPT !.ret = 0]
                 /\ eof_reached' = TRUE
            ELSE /\ flv_pc' = "rf_towait"
                 /\ UNCHANGED <<buf_mutex, rf_call, eof_reached>>
       ELSE /\ flv_pc' = "rf_read"
            /\ UNCHANGED <<buf_mutex, rf_call, eof_reached>>
    /\ UNCHANGED <<cond, done, done_converting_to_flv, count_read, wf,
                   flv_ret, buf_size, flv_failed, wf_late, ringVars, mainVars>>

\* cond.wait(lk): release the mutex and block
RfWait ==
    /\ flv_pc = "rf_towait"
    /\ buf_mutex' = "free"
    /\ cond' = cond \cup {"flv"}
    /\ flv_pc' = "rf_waiting"
    /\ UNCHANGED <<done, done_converting_to_flv, count_read, wf,
                   flv_ret, buf_size, rf_call, eof_reached, flv_failed, wf_late,
                   ringVars, mainVars>>

\* cond.wait(lk) returns: woken, the mutex is taken again
RfWake ==
    /\ flv_pc = "rf_waiting" /\ "flv" \notin cond /\ buf_mutex = "free"
    /\ buf_mutex' = "flv"
    /\ flv_pc' = "rf_check"
    /\ UNCHANGED <<cond, done, done_converting_to_flv, count_read, wf,
                   flv_ret, buf_size, rf_call, eof_reached, flv_failed, wf_late,
                   ringVars, mainVars>>

\* readFunction adding buf_size, not the size returned by buff.read, to count_read
RfRead_counts_request ==
    LET r == read(buff, buf_size) IN
    /\ flv_pc = "rf_read"
    /\ buff' = r.buf
    /\ readout' = readout \o r.data
    /\ lastCall' = [op |-> "read", sz |-> buf_size, ret |-> r.ret, data |-> r.data]
    /\ cond' \in notify_one(cond)
    /\ count_read' = count_read + buf_size
    /\ buf_mutex' = "free"
    /\ rf_call' = [rf_call EXCEPT !.ret = r.ret]
    /\ eof_reached' = (r.ret = 0)
    /\ flv_pc' = flv_ret
    /\ UNCHANGED <<written, done, done_converting_to_flv, wf,
                   flv_ret, buf_size, flv_failed, wf_late, mainVars>>

\* size = buff.read(buf, buf_size); cond.notify_one(); count_read += size;
\* return size (the lock is released)
RfRead ==
    LET r == read(buff, buf_size) IN
    /\ flv_pc = "rf_read"
    /\ buff' = r.buf
    /\ readout' = readout \o r.data
    /\ lastCall' = [op |-> "read", sz |-> buf_size, ret |-> r.ret, data |-> r.data]
    /\ cond' \in notify_one(cond)
    /\ count_read' = count_read + r.ret
    /\ buf_mutex' = "free"
    /\ rf_call' = [rf_call EXCEPT !.ret = r.ret]
    /\ eof_reached' = (r.ret = 0)
    /\ flv_pc' = flv_ret
    /\ UNCHANGED <<written, done, done_converting_to_flv, wf,
                   flv_ret, buf_size, flv_failed, wf_late, mainVars>>

\* a call of writeFunction: wf.write(buf, buf_size)
writeFunction(called) == wf_late' = (wf_late \/ (called /\ ~wf))

(* ---- convert_to_flv ---- *)

\* avformat_open_input / avformat_find_stream_info read the input
FlvProbeRead(n) == RfEnter("probe", n)

\* a set-up step fails: done_converting_to_flv.store(true); return
FlvProbeFail ==
    /\ flv_pc = "probe"
    /\ flv_failed' = TRUE
    /\ done_converting_to_flv' = TRUE
    /\ flv_pc' = "exit"
    /\ UNCHANGED <<buf_mutex, cond, done, count_read, wf,
                   flv_ret, buf_size, rf_call, eof_reached, wf_late,
                   ringVars, mainVars>>

\* the set-up succeeds; avformat_write_header, which may call writeFunction;
\* if it fails: goto end
FlvHeader(called, ok) ==
    /\ flv_pc = "probe"
    /\ writeFunction(called)
    /\ flv_failed' = (flv_failed \/ ~ok)
    /\ flv_pc' = IF ok THEN "loop" ELSE "end"
    /\ UNCHANGED <<flv_ret, buf_size, rf_call, eof_reached,
                   ringVars, syncVars, mainVars>>

\* while (!done.load())
FlvLoop ==
    /\ flv_pc = "loop"
    /\ flv_pc' = IF done THEN "trailer" ELSE "frame"
    /\ UNCHANGED <<flv_ret, buf_size, rf_call, eof_reached, flv_failed, wf_late,
                   ringVars, syncVars, mainVars>>

\* av_read_frame reads the input
FlvFrameRead(n) == RfEnter("frame", n)

\* av_read_frame returns a packet; it is skipped, or muxed by
\* av_interleaved_write_frame, which may call writeFunction and may fail (break)
FlvFrame(called, ok) ==
    /\ flv_pc = "frame"
    /\ writeFunction(called)
    /\ flv_failed' = (flv_failed \/ ~ok)
    /\ flv_pc' = IF ok THEN "loop" ELSE "trailer"
    /\ UNCHANGED <<flv_ret, buf_size, rf_call, eof_reached,
                   ringVars, syncVars, mainVars>>

\* av_read_frame returns ret < 0: break.  Before the end of the input this is
\* an error of the consumer.
FlvFrameEnd ==
    /\ flv_pc = "frame"
    /\ flv_failed' = (flv_failed \/ ~eof_reached)
    /\ flv_pc' = "trailer"
    /\ UNCHANGED <<flv_ret, buf_size, rf_call, eof_reached, wf_late,
                   ringVars, syncVars, mainVars>>

\* av_write_trailer, which may call writeFunction; end: the contexts are freed
FlvTrailer(called) ==
    /\ flv_pc = "trailer"
    /\ writeFunction(called)
    /\ flv_pc' = "end"
    /\ UNCHANGED <<flv_ret, buf_size, rf_call, eof_reached, flv_failed,
                   ringVars, syncVars, mainVars>>

\* done_converting_to_flv.store(true); the thread function returns
FlvEnd ==
    /\ flv_pc = "end"
    /\ done_converting_to_flv' = TRUE
    /\ flv_pc' = "exit"
    /\ UNCHANGED <<buf_mutex, cond, done, count_read, wf,
                   flv_ret, buf_size, rf_call, eof_reached, flv_failed, wf_late,
                   ringVars, mainVars>>

\* cond.wait may return without a notify
SpuriousWakeup(t) ==
    /\ t \in cond
    /\ cond' = cond \ {t}
    /\ UNCHANGED <<buf_mutex, done, done_converting_to_flv, count_read, wf,
                   ringVars, mainVars, flvVars>>

PipeNext ==
    \/ \E n \in 0 .. MaxMsg : MainRecv(Stamp(count, n), MaxIter)
    \/ MainRecvError(MaxIter)
    \/ MainLoopEnd(MaxIter)
    \/ MainLock
    \/ MainCheck
    \/ MainWait
    \/ MainWake
    \/ MainWrite
    \/ MainClose
    \/ MainStoreDone
    \/ MainNotifyAll
    \/ MainJoin
    \/ \E n \in 1 .. MaxRead : FlvProbeRead(n)
    \/ FlvProbeFail
    \/ \E called, ok \in BOOLEAN : FlvHeader(called, ok)
    \/ FlvLoop
    \/ \E n \in 1 .. MaxRead : FlvFrameRead(n)
    \/ \E called, ok \in BOOLEAN : FlvFrame(called, ok)
    \/ FlvFrameEnd
    \/ \E called \in BOOLEAN : FlvTrailer(called)
    \/ FlvEnd
    \/ RfLock
    \/ RfCheck
    \/ RfWait
    \/ RfWake
    \/ RfRead
    \/ \E t \in {"main", "flv"} : SpuriousWakeup(t)

Spec == PipeInit /\ [][PipeNext]_vars

---------------------------------------------------------------------------
(* The pipeline in the scenario of the backpressure test: capacity 16, the *)
(* peer sends a message of 12 and a message of 8 bytes and the stream      *)
(* ends, libavformat reads in chunks of 5 bytes.                           *)

Scenario == [capacity |-> 16, msgs |-> <<12, 8>>, chunk |-> 5]

ScenarioInit ==
    PipeInitWith(Scenario.capacity,
                 {[k \in 0 .. Scenario.capacity - 1 |-> g] : g \in Garbage})

ScenarioNext ==
    \/ MainRecv(Stamp(count, Scenario.msgs[i + 1]), Len(Scenario.msgs))
    \/ MainLoopEnd(Len(Scenario.msgs))
    \/ MainLock
    \/ MainCheck
    \/ MainWait
    \/ MainWake
    \/ MainWrite
    \/ MainClose
    \/ MainStoreDone
    \/ MainNotifyAll
    \/ MainJoin
    \/ FlvProbeRead(Scenario.chunk)
    \/ FlvProbeFail
    \/ \E called, ok \in BOOLEAN : FlvHeader(called, ok)
    \/ FlvLoop
    \/ FlvFrameRead(Scenario.chunk)
    \/ \E called, ok \in BOOLEAN : FlvFrame(called, ok)
    \/ FlvFrameEnd
    \/ \E called \in BOOLEAN : FlvTrailer(called)
    \/ FlvEnd
    \/ RfLock
    \/ RfCheck
    \/ RfWait
    \/ RfWake
    \/ RfRead
    \/ \E t \in {"main", "flv"} : SpuriousWakeup(t)

SpecScenario == ScenarioInit /\ [][ScenarioNext]_vars

---------------------------------------------------------------------------
(* The constructor: one definition `RingBuffer x(cap)` with any capacity   *)
(* a size_t can hold.                                                      *)

\* the value of buff while no RingBuffer object exists
NoObject == "none"

\* what new char[cap] may hold: a large array is filled with one value
Uninitialised(cap) == {[k \in 0 .. cap - 1 |-> g] : g \in Garbage}

CtorInit ==
    /\ buff = NoObject
    /\ written = <<>>
    /\ readout = <<>>
    /\ lastCall = NoCall
    /\ PipelineIdle

\* RingBuffer::RingBuffer(cap): throws std::invalid_argument, or new char[cap]
\* fails and it throws std::runtime_error, or the object exists
Construct(cap, alloc_ok) ==
    /\ lastCall.op = "none"
    /\ IF CtorThrows(cap)
       THEN /\ buff' = NoObject
            /\ lastCall' = [op |-> "invalid_argument", sz |-> cap, ret |-> 0, data |-> <<>>]
       ELSE IF ~alloc_ok
       THEN /\ buff' = NoObject
            /\ lastCall' = [op |-> "runtime_error", sz |-> cap, ret |-> 0, data |-> <<>>]
       ELSE /\ \E storage \in Uninitialised(cap) : buff' = RingBuffer(cap, storage)
            /\ lastCall' = [op |-> "RingBuffer", sz |-> cap, ret |-> 0, data |-> <<>>]
    /\ UNCHANGED <<written, readout, syncVars, mainVars, flvVars>>

\* x.write(data, sz) on the new object, for a request of the whole capacity
\* or of a length as large as size_t allows; no call follows a refused one
CtorWrite(sz) ==
    LET data == [k \in 1 .. sz |-> 1]
        r    == write(buff, ArrayOf(data), sz) IN
    /\ lastCall.op \in {"RingBuffer", "write"}
    /\ lastCall.ret # RingBufferErrOutOfSpace
    /\ sz \in {capacity(buff), RingBufferErrOutOfSpace, SizeMax}
    /\ buff' = r.buf
    /\ written' = written \o SubSeq(data, 1, Stored(r.ret))
    /\ lastCall' = [op |-> "write", sz |-> sz, ret |-> r.ret, data |-> data]
    /\ UNCHANGED <<readout, syncVars, mainVars, flvVars>>

CtorNext ==
    \/ \E cap \in 0 .. SizeMax : \E alloc_ok \in BOOLEAN : Construct(cap, alloc_ok)
    \/ \E sz \in 0 .. SizeMax : CtorWrite(sz)

SpecCtor == CtorInit /\ [][CtorNext]_vars

---------------------------------------------------------------------------
(* Claims about the ring buffer driven by direct calls.                    *)

IsPrefix(s, t) == Len(s) <= Len(t) /\ SubSeq(t, 1, Len(s)) = s

\* the bytes stored and not yet read
Pending == SubSeq(written, Len(readout) + 1, Len(written))

\* the m_size bytes of storage starting at m_head, wrapping at m_capacity
Unread(b) == [k \in 1 .. b.m_size |-> b.m_buff[(b.m_head + (k - 1)) % b.m_capacity]]

\* C1: the bytes returned by the reads, concatenated, are a prefix of the bytes
\* stored by the writes, concatenated: same order, none repeated, none skipped.
C1_Fifo == IsPrefix(readout, written)

\* C1 witness: reads have returned more bytes than the storage holds, so the
\* read span has wrapped, and bytes are still pending.
C1_Witness ==
    /\ lastCall.op = "read" /\ lastCall.ret >= 2
    /\ buff.m_capacity > 0 /\ Len(readout) > buff.m_capacity
    /\ Len(written) > Len(readout)

\* C9: 0 <= size <= capacity in every state, and the bytes stored and not yet
\* read are still in storage, unchanged, between head and tail.
C9_Bounded ==
    /\ 0 <= buff.m_size
    /\ buff.m_size <= buff.m_capacity
    /\ Unread(buff) = Pending

\* C9 witness: a write that did not fit was cut short and filled the buffer
\* after the indices had already wrapped.
C9_Witness ==
    /\ lastCall.op = "write" /\ lastCall.ret > 0 /\ lastCall.ret < lastCall.sz
    /\ buff.m_size = buff.m_capacity
    /\ Len(readout) > 0 /\ buff.m_head > 0

\* C10: avail() + size() == capacity() after any sequence of calls.
C10_AvailPlusSize == avail(buff) + size(buff) = capacity(buff)

\* C10 witness: both kinds of call have run and the buffer is partly filled.
C10_Witness ==
    /\ lastCall.op = "read" /\ lastCall.ret > 0
    /\ 0 < size(buff) /\ 0 < avail(buff)

\* C12: a write call with len > 0 and free space > 0 returns
\* n = min(len, capacity - size), stores exactly the first n bytes of data, byte
\* j at storage position (tail + j) mod capacity (a span that crosses the end of
\* storage continues at position 0) and no other position, increases size by n,
\* moves tail to (tail + n) mod capacity and leaves head alone; a write call with
\* len == 0 returns 0 and changes nothing.
C12_WriteContract ==
    [][lastCall'.op = "write" =>
         LET len  == lastCall'.sz
             free == buff.m_capacity - buff.m_size
             n    == Min(len, free)
             span == {(buff.m_tail + j) % buff.m_capacity : j \in 0 .. n - 1} IN
         /\ (len > 0 /\ free > 0) =>
               /\ lastCall'.ret = n
               /\ Len(written') = Len(written) + n
               /\ SubSeq(written', 1, Len(written)) = written
               /\ \A j \in 0 .. n - 1 :
                     buff'.m_buff[(buff.m_tail + j) % buff.m_capacity]
                        = written'[Len(written) + j + 1]
               /\ \A k \in DOMAIN buff.m_buff :
                     k \notin span => buff'.m_buff[k] = buff.m_buff[k]
               /\ buff'.m_size = buff.m_size + n
               /\ buff'.m_tail = (buff.m_tail + n) % buff.m_capacity
               /\ buff'.m_head = buff.m_head
               /\ buff'.m_capacity = buff.m_capacity
         /\ len = 0 =>
               /\ lastCall'.ret = 0
               /\ buff' = buff
               /\ written' = written]_vars

\* C12 witness: a write of more bytes than fit was cut to the free space and
\* its span crossed the end of storage: tail has wrapped to below the stored length.
C12_Witness ==
    /\ lastCall.op = "write"
    /\ lastCall.ret >= 2 /\ lastCall.ret < lastCall.sz
    /\ 0 < buff.m_tail /\ buff.m_tail < lastCall.ret

\* C13: a read call returns n = min(max_len, size), copies out the n oldest
\* unread bytes, which are the bytes at storage positions (head + j) mod capacity
\* for j < n (a span that crosses the end of storage continues at position 0),
\* decreases size by n, moves head to (head + n) mod capacity and leaves tail and
\* the storage alone; on an empty buffer it returns 0 and changes nothing.
C13_ReadContract ==
    [][lastCall'.op = "read" =>
         LET n == Min(lastCall'.sz, buff.m_size) IN
         /\ lastCall'.ret = n
         /\ readout' = readout \o SubSeq(Pending, 1, n)
         /\ readout' = readout \o
               [j \in 1 .. n |-> buff.m_buff[(buff.m_head + (j - 1)) % buff.m_capacity]]
         /\ buff'.m_size = buff.m_size - n
         /\ (buff.m_capacity > 0 =>
               buff'.m_head = (buff.m_head + n) % buff.m_capacity)
         /\ buff'.m_tail = buff.m_tail
         /\ buff'.m_buff = buff.m_buff
         /\ buff'.m_capacity = buff.m_capacity
         /\ (buff.m_size = 0 =>
               /\ lastCall'.ret = 0
               /\ buff' = buff
               /\ readout' = readout)]_vars

\* C13 witness: a read asked for more bytes than were stored, got them all,
\* and its span crossed the end of storage: head has wrapped to below the
\* returned length.
C13_Witness ==
    /\ lastCall.op = "read"
    /\ lastCall.ret >= 2 /\ lastCall.ret < lastCall.sz
    /\ 0 < buff.m_head /\ buff.m_head < lastCall.ret
    /\ buff.m_size = 0

\* C14 as stated: in any reachable state, a write(data, len) followed
\* immediately by a read(out, len) returns in out the bytes data[0..len).
C14_RoundTripAnywhere ==
    [][(/\ lastCall.op = "write"
        /\ lastCall'.op = "read" /\ lastCall'.sz = lastCall.sz)
       => lastCall'.data = lastCall.data]_vars

\* C14, amended: when the buffer is empty and len <= capacity, a
\* write(data, len) followed immediately by a read(out, len) returns len and
\* in out the bytes data[0..len), also when the written span crosses the end of
\* storage.  (After the write: everything was stored, and it is all there is.)
C14_RoundTripOnEmpty ==
    [][(/\ lastCall.op = "write"
        /\ lastCall.ret = lastCall.sz /\ size(buff) = lastCall.sz
        /\ lastCall'.op = "read" /\ lastCall'.sz = lastCall.sz)
       => /\ lastCall'.ret = lastCall.sz
          /\ lastCall'.data = lastCall.data
          /\ size(buff') = 0]_vars

\* C14 witness: the write of a round trip has stored two or more bytes into
\* an empty buffer across the end of storage (tail has wrapped below the
\* length, the buffer holds exactly these bytes); every read is possible next.
C14_Witness ==
    /\ lastCall.op = "write"
    /\ lastCall.sz >= 2 /\ lastCall.ret = lastCall.sz
    /\ size(buff) = lastCall.sz
    /\ 0 < buff.m_tail /\ buff.m_tail < lastCall.sz
    /\ Unread(buff) = lastCall.data

\* C16: a write call with len > 0 on a buffer with capacity - size == 0
\* returns the no-space result RingBufferErrOutOfSpace and leaves head, tail,
\* size and the stored bytes unchanged; nothing counts as stored.
C16_FullWrite ==
    [][(/\ lastCall'.op = "write" /\ lastCall'.sz > 0
        /\ buff.m_capacity - buff.m_size = 0)
       => /\ lastCall'.ret = RingBufferErrOutOfSpace
          /\ buff' = buff
          /\ Unread(buff') = Unread(buff)
          /\ written' = written]_vars

\* C16 witness: a write was refused for lack of space on a buffer that had
\* filled up after its indices had moved away from 0.
C16_Witness ==
    /\ lastCall.op = "write" /\ lastCall.sz > 0
    /\ lastCall.ret = RingBufferErrOutOfSpace
    /\ buff.m_capacity > 0 /\ buff.m_size = buff.m_capacity
    /\ buff.m_head > 0

\* C27: full versus empty: in every reachable state of a RingBuffer with
\* capacity > 0, head == tail holds if and only if size == 0 or
\* size == capacity.
C27_FullVersusEmpty ==
    buff.m_capacity > 0 =>
        ((buff.m_head = buff.m_tail)
            <=> (buff.m_size = 0 \/ buff.m_size = buff.m_capacity))

\* C27 witness: the buffer has been emptied by a read after more bytes than
\* its capacity went through it: head == tail away from 0, size == 0.
C27_Witness ==
    /\ lastCall.op = "read" /\ lastCall.ret > 0
    /\ buff.m_size = 0
    /\ buff.m_head = buff.m_tail /\ buff.m_head > 0
    /\ Len(written) > buff.m_capacity

\* C28: frame conditions: a write call leaves head unchanged and changes no
\* stored byte that has not yet been read; a read call leaves tail and the whole
\* storage unchanged; size(), capacity() and avail() change nothing of the
\* object and return m_size, m_capacity and m_capacity - m_size.
C28_FrameConditions ==
    [][/\ (lastCall'.op = "write" =>
             /\ buff'.m_head = buff.m_head
             /\ \A j \in 0 .. buff.m_size - 1 :
                   buff'.m_buff[(buff.m_head + j) % buff.m_capacity]
                      = buff.m_buff[(buff.m_head + j) % buff.m_capacity])
       /\ (lastCall'.op = "read" =>
             /\ buff'.m_tail = buff.m_tail
             /\ buff'.m_buff = buff.m_buff)
       /\ (lastCall'.op \in {"size", "capacity", "avail"} =>
             /\ buff' = buff
             /\ written' = written /\ readout' = readout
             /\ (lastCall'.op = "size" => lastCall'.ret = buff.m_size)
             /\ (lastCall'.op = "capacity" => lastCall'.ret = buff.m_capacity)
             /\ (lastCall'.op = "avail" =>
                   lastCall'.ret = buff.m_capacity - buff.m_size))]_vars

\* C28 witness: avail() has been called on a partly filled buffer whose
\* content lies across the end of storage, after writes and reads.
C28_Witness ==
    /\ lastCall.op = "avail" /\ lastCall.ret > 0
    /\ size(buff) > 0 /\ Len(readout) > 0
    /\ buff.m_tail < buff.m_head

---------------------------------------------------------------------------
(* Claims about the constructor (SpecCtor).                                *)

CtorFailed == lastCall.op \in {"invalid_argument", "runtime_error"}
CtorReturned == lastCall.op = "RingBuffer"

\* C17: constructing a RingBuffer with capacity zero fails with an error and
\* creates no buffer object.
C17_ZeroCapacityRejected ==
    ((CtorFailed \/ CtorReturned) /\ lastCall.sz = 0) =>
        (CtorFailed /\ buff = NoObject)

\* C18: the constructor throws invalid_argument exactly when the requested
\* capacity is larger than RingBufferMaxSize; for every capacity not larger
\* than the limit it succeeds, unless the allocation fails, with capacity()
\* equal to the request.
C18_CapacityCeiling ==
    (CtorFailed \/ CtorReturned) =>
        /\ (lastCall.op = "invalid_argument") <=> (lastCall.sz > RingBufferMaxSize)
        /\ (CtorReturned => capacity(buff) = lastCall.sz)

\* C29: the no-space result is unambiguous: every capacity the constructor
\* accepts is below RingBufferErrOutOfSpace, a write that stores bytes returns
\* their number, which is at most the capacity and so below
\* RingBufferErrOutOfSpace, and a write that returns RingBufferErrOutOfSpace
\* has stored nothing.
C29_NoSpaceUnambiguous ==
    /\ [](lastCall.op \in {"RingBuffer", "write"} =>
             capacity(buff) < RingBufferErrOutOfSpace)
    /\ [][lastCall'.op = "write" =>
             IF lastCall'.ret = RingBufferErrOutOfSpace
             THEN buff' = buff /\ written' = written
             ELSE /\ lastCall'.ret <= capacity(buff)
                  /\ lastCall'.ret < RingBufferErrOutOfSpace
                  /\ Len(written') = Len(written) + lastCall'.ret
                  /\ size(buff') = size(buff) + lastCall'.ret]_vars

\* C29 witness: the largest capacity the constructor accepts has been filled
\* by one write of a length above that capacity, and the write after it was
\* refused.
C29_Witness ==
    /\ lastCall.op = "write" /\ lastCall.ret = RingBufferErrOutOfSpace
    /\ capacity(buff) = RingBufferMaxSize - 1
    /\ size(buff) = capacity(buff)
    /\ Len(written) = capacity(buff)

---------------------------------------------------------------------------
(* Claims about the pipeline.                                              *)

InReadFunction == flv_pc \in {"rf_lock", "rf_check", "rf_towait", "rf_waiting", "rf_read"}

\* C2: graceful drain: when the flv thread has terminated without failing,
\* every byte the receive loop stored in the ring buffer has been read out by
\* readFunction.
C2_GracefulDrain ==
    (flv_pc = "exit" /\ ~flv_failed) => readout = written

\* C3: no shutdown hang of the consumer: main is never inside flv_thread.join()
\* (done set, notify_all issued) while the flv thread is still blocked in the
\* cond.wait of readFunction, where no later notify can reach it.
C3_ConsumerNotStranded ==
    ~(main_pc = "join" /\ flv_pc = "rf_waiting" /\ "flv" \in cond)

\* C4: abort unblocks the producer: the flv thread has never given up and
\* returned while main is left blocked in the cond.wait for free space, with no
\* notify to come and a wait condition that can no longer change.
C4_AbortUnblocksProducer ==
    ~(/\ done_converting_to_flv /\ flv_pc = "exit"
      /\ main_pc = "waiting" /\ "main" \in cond
      /\ avail(buff) < st)

\* C5: no lost wakeups: every change that can unblock a waiter (the buffer
\* read or written, done set, done_converting_to_flv set) is made by a thread
\* that holds buf_mutex.
C5_ChangesUnderLock ==
    [][/\ (done' # done => buf_mutex = "main")
       /\ (done_converting_to_flv' # done_converting_to_flv => buf_mutex = "flv")
       /\ (buff' # buff => buf_mutex # "free")]_vars

\* C6: pipeline ordering: the bytes returned by the readFunction calls so far
\* are a prefix of the bytes the receive loop passed to buff.write, in order;
\* every message passed to buff.write was stored whole.
C6_PipelineOrder ==
    /\ IsPrefix(readout, written)
    /\ count_read = Len(readout)
    /\ (lastCall.op = "write" => lastCall.ret = lastCall.sz)

\* C6 witness: the producer is blocked for space while the consumer has
\* already read across the physical end of storage.
C6_Witness ==
    /\ main_pc = "waiting" /\ "main" \in cond
    /\ Len(readout) >= 2 /\ buff.m_head > 0 /\ buff.m_tail <= buff.m_head
    /\ buff.m_size > 0

\* C8: end-of-stream after drain: a readFunction call entered with done set
\* and the buffer empty never waits and never reads: it returns 0.
C8_EosAfterDrain ==
    (rf_call.done /\ rf_call.size = 0) =>
        /\ flv_pc \notin {"rf_towait", "rf_waiting", "rf_read"}
        /\ rf_call.ret \in {-1, 0}
        /\ (~InReadFunction => rf_call.ret = 0)

\* C8 witness: the stream carried data, was drained, and the call entered after
\* that has returned 0.
C8_Witness ==
    /\ rf_call.done /\ rf_call.size = 0 /\ rf_call.ret = 0
    /\ Len(written) > 0 /\ readout = written
    /\ ~InReadFunction

\* C11 as stated: in every reachable state size == (tail - head) mod capacity,
\* and head and tail are both in [0, capacity).
C11_SizeIsIndexDistance ==
    /\ buff.m_head \in 0 .. buff.m_capacity - 1
    /\ buff.m_tail \in 0 .. buff.m_capacity - 1
    /\ buff.m_size = (buff.m_tail - buff.m_head) % buff.m_capacity

\* C11, amended: in every reachable state of a RingBuffer of capacity > 0,
\* head and tail are both in [0, capacity), 0 <= size <= capacity and size is
\* congruent to tail - head modulo capacity: size == (tail - head) mod capacity
\* unless the buffer is full, when size == capacity and head == tail.
C11_IndexInvariant ==
    buff.m_capacity > 0 =>
        /\ buff.m_head \in 0 .. buff.m_capacity - 1
        /\ buff.m_tail \in 0 .. buff.m_capacity - 1
        /\ buff.m_size \in 0 .. buff.m_capacity
        /\ buff.m_size % buff.m_capacity
              = (buff.m_tail - buff.m_head) % buff.m_capacity
        /\ (buff.m_size < buff.m_capacity =>
              buff.m_size = (buff.m_tail - buff.m_head) % buff.m_capacity)
        /\ (buff.m_size = buff.m_capacity => buff.m_head = buff.m_tail)

\* C11 witness: the buffer is full after reads and writes have moved both
\* indices away from 0: head == tail and size == capacity.
C11_Witness ==
    /\ buff.m_size = buff.m_capacity
    /\ buff.m_head = buff.m_tail /\ buff.m_head > 0
    /\ Len(readout) > 0

\* C15: lock discipline: the thread that is at a call of buff.avail,
\* buff.write, buff.size or buff.read holds buf_mutex, so main and the flv
\* thread are never inside a RingBuffer operation at the same time, and every
\* step that runs buff.write or buff.read is taken by the holder of buf_mutex.
C15_LockDiscipline ==
    /\ [](/\ (main_pc \in {"check", "towait", "write"} => buf_mutex = "main")
          /\ (flv_pc \in {"rf_check", "rf_towait", "rf_read"} => buf_mutex = "flv")
          /\ ~(main_pc \in {"check", "write"} /\ flv_pc \in {"rf_check", "rf_read"}))
    /\ [][(buff' # buff \/ lastCall' # lastCall) =>
             \/ (main_pc = "write" /\ buf_mutex = "main")
             \/ (flv_pc = "rf_read" /\ buf_mutex = "flv")]_vars

\* C15 witness: main is inside buff.write with the mutex while the flv
\* thread, inside readFunction, is held up at the lock; the buffer has data
\* both sides have worked on.
C15_Witness ==
    /\ main_pc = "write" /\ buf_mutex = "main"
    /\ flv_pc = "rf_lock"
    /\ size(buff) > 0 /\ Len(readout) > 0

\* C19: done and done_converting_to_flv both start false and each changes
\* only from false to true: once a flag is true it is true in every later state.
C19_FlagsMonotone ==
    /\ (~done /\ ~done_converting_to_flv)
    /\ [][/\ (done => done')
          /\ (done_converting_to_flv => done_converting_to_flv')]_vars

\* C19 witness: both flags have been set, done_converting_to_flv while the
\* receive loop was still running, and both threads have run to their end.
C19_Witness ==
    /\ done /\ done_converting_to_flv
    /\ main_pc = "exit" /\ flv_pc = "exit"
    /\ i < MaxIter /\ count > Len(written)

\* C20: end-of-stream only after drain: a readFunction call returns 0 only
\* from a state in which the ring buffer is empty and done is set; it is called
\* with buf_size > 0, waits only while the buffer is empty, and when the buffer
\* holds at least one byte it returns a positive count, min(buf_size, size),
\* whether or not done has been set.
C20_EosOnlyAfterDrain ==
    /\ [](/\ (flv_pc = "rf_towait" => size(buff) = 0)
          /\ (flv_pc = "rf_read" => size(buff) > 0)
          /\ (InReadFunction => buf_size > 0))
    /\ [][(InReadFunction /\ rf_call'.ret # -1) =>
             /\ (rf_call'.ret = 0 =>
                   /\ size(buff) = 0 /\ done
                   /\ size(buff') = 0 /\ done')
             /\ (size(buff) > 0 =>
                   /\ rf_call'.ret > 0
                   /\ rf_call'.ret = Min(buf_size, size(buff)))]_vars

\* C20 witness: a readFunction call entered after done was set, with bytes in
\* the buffer, has returned a positive count.
C20_Witness ==
    /\ rf_call.done /\ rf_call.size > 0
    /\ rf_call.ret > 0
    /\ ~InReadFunction

\* C21: producer wait condition: main goes into cond.wait only when the
\* buffer has no free space at all and neither done nor done_converting_to_flv
\* is set; with avail > 0 it does not wait, it writes what fits.
C21_WaitsOnlyWhenFull ==
    main_pc = "towait" =>
        /\ avail(buff) = 0
        /\ ~done /\ ~done_converting_to_flv

\* C22: guarded waits tolerate spurious wakeups: with cond.wait free to
\* return at any time, main is at buff.write only when avail >= the message
\* length, so every write stores the whole message and none returns
\* RingBufferErrOutOfSpace, and the flv thread is at buff.read only when
\* size > 0, so every read returns at least one byte.
C22_GuardedWaits ==
    /\ (main_pc = "write" => avail(buff) >= st)
    /\ (lastCall.op = "write" =>
          lastCall.ret = lastCall.sz /\ lastCall.ret # RingBufferErrOutOfSpace)
    /\ (flv_pc = "rf_read" => size(buff) > 0)
    /\ (lastCall.op = "read" => lastCall.ret > 0)

\* C22 witness: main has been woken from cond.wait without a notify (the
\* last RingBuffer call is still its own write, so nothing was read and no
\* notify was sent since it began to wait) while its message does not fit.
C22_Witness ==
    /\ main_pc = "waiting" /\ "main" \notin cond
    /\ lastCall.op = "write"
    /\ avail(buff) < st

\* C23: no mutual blocking: while neither done nor done_converting_to_flv is
\* set and the message in hand is no longer than the capacity, main and the flv
\* thread are never both blocked in cond.wait (main for space, the flv thread
\* for data) at the same time.
C23_NoMutualBlocking ==
    (~done /\ ~done_converting_to_flv /\ st <= capacity(buff)) =>
        ~("main" \in cond /\ "flv" \in cond)

\* C23 witness: main is blocked in cond.wait for space while the flv thread,
\* which waited for data, has been notified by the last write and has not yet
\* run again; neither flag is set.
C23_Witness ==
    /\ main_pc = "waiting" /\ "main" \in cond
    /\ flv_pc = "rf_waiting" /\ "flv" \notin cond
    /\ ~done /\ ~done_converting_to_flv
    /\ 0 < st /\ st <= capacity(buff)

\* C24: byte conservation: whenever buf_mutex is not held, the bytes
\* accepted by buff.write so far minus the bytes returned by buff.read so far
\* (count_read) equal buff.size(), and the buffer holds exactly the accepted
\* bytes from number count_read + 1 on: none lost, none duplicated.
C24_ByteConservation ==
    buf_mutex = "free" =>
        /\ Len(written) - count_read = size(buff)
        /\ Unread(buff) = SubSeq(written, count_read + 1, Len(written))

\* C24 witness: the mutex is free, bytes have been read and bytes are still
\* stored, across the end of storage.
C24_Witness ==
    /\ buf_mutex = "free"
    /\ count_read > 0 /\ size(buff) >= 2
    /\ buff.m_tail <= buff.m_head

\* C25: after the flv thread has set done_converting_to_flv, main stores no
\* further bytes: main is never at its buff.write call, with a message of at
\* least one byte, in a state where done_converting_to_flv is true.
C25_NoWriteAfterConsumerDone ==
    (main_pc = "write" /\ st > 0) => ~done_converting_to_flv

\* C26: output file ordering: wf is closed only after the last writeFunction
\* call of the flv thread; no writeFunction call occurs after wf.close().
C26_NoWriteAfterClose == ~wf_late

---------------------------------------------------------------------------
(* Claims about the backpressure scenario (SpecScenario).                  *)

ScenarioBytes == Stamp(0, Scenario.msgs[1] + Scenario.msgs[2])

\* The safety half of C7: the producer calls buff.write only once the whole
\* message fits, the message is stored whole, once and unchanged, and the
\* consumer reads a prefix of the original bytes.
C7_StoredExactly ==
    /\ (main_pc = "write" => avail(buff) >= st)
    /\ (lastCall.op = "write" => lastCall.ret = lastCall.sz)
    /\ IsPrefix(written, ScenarioBytes)
    /\ IsPrefix(readout, written)
    /\ Unread(buff) = Pending

\* C7: backpressure: a message that does not fit makes the producer wait
\* until readFunction has freed space, then exactly its bytes are stored; with
\* capacity 16, messages of 12 and 8 bytes and 5-byte reads, a consumer that
\* does not fail has read exactly the 20 original bytes, in order, when it
\* terminates.
C7_BackpressureDelivers ==
    /\ C7_StoredExactly
    /\ (flv_pc = "exit" /\ ~flv_failed) => readout = ScenarioBytes

\* In the scenario the second write does block after the first.
C7_SecondWriteBlocks ==
    /\ main_pc = "waiting" /\ "main" \in cond
    /\ i = 1 /\ st = Scenario.msgs[2]
    /\ written = Stamp(0, Scenario.msgs[1])

=============================================================================
